---- MODULE Spec2Model ----
(***************************************************************************)
(* Model of app.py, the Streamlit script of the Visa Statement Auditor.    *)
(*                                                                         *)
(* A text is a sequence of one-character strings, so that splitting on the *)
(* pipe, the replace chain of clean_money, float() and the case-blind      *)
(* search for SALARY are computed character by character.  The naira sign  *)
(* is the single element Naira.  A number is kept in hundredths (1000.50   *)
(* is 100050); the catalogue holds no amount with more than two decimals.  *)
(***************************************************************************)
EXTENDS Integers, Sequences, FiniteSets

VARIABLES
    password_correct,  \* st.session_state["password_correct"]: "absent", "True", "False"
    password,          \* st.session_state["password"]: "absent" or the key in the widget
    keyEntered,        \* the key handed to the last password_entered callback
    has_api_key,       \* "GROQ_API_KEY" in st.secrets
    pc,                \* position of the script run; "idle" between runs
    screen,            \* what the last finished run left on the page
    page,              \* sidebar radio
    button,            \* the button clicked for this run: "none", "run", "logout"
    uploaded_file,     \* a PDF is in the uploader
    salary,            \* st.number_input
    text_len,          \* len(text_data), -1 before the PDF is read
    groq_call,         \* client.chat.completions.create: "not called", "raised", "returned"
    raw_ai_text,       \* resp.choices[0].message.content, a text
    valid_lines,       \* the lines holding a pipe
    columns,           \* df.columns
    raw_df,            \* df after step 4, before clean_money is applied
    df,                \* df, a sequence of rows, each a sequence of cells
    status,            \* the status placeholder
    errors,            \* st.error calls of this run, in order
    flags,             \* the flags list
    metrics,           \* the two st.metric values, or NoMetrics
    report,            \* "none", "flags", "clean"
    table,             \* st.dataframe(df) was called
    mCase,             \* clean_money harness: the case under test
    mOut               \* clean_money harness: what clean_money returned

vars == <<password_correct, password, keyEntered, has_api_key, pc, screen, page,
          button, uploaded_file, salary, text_len, groq_call, raw_ai_text,
          valid_lines, columns, raw_df, df, status, errors, flags, metrics,
          report, table, mCase, mOut>>

sessionVars == <<password_correct, password, keyEntered>>
widgetVars == <<page, button, uploaded_file, salary>>
dataVars == <<text_len, groq_call, raw_ai_text, valid_lines, columns, raw_df, df>>
outVars == <<status, errors, flags, metrics, report, table>>
moneyVars == <<mCase, mOut>>

----------------------------------------------------------------------------
(* Bounds and program constants *)

MaxLines == 2        \* lines in one completion text

MinTextLen == 50     \* len(text_data) < 50
SchemaWidth == 5     \* col_count >= 5
LimitFactor == 3     \* limit = salary * 3
DefaultBalance == 0  \* df["Balance"] = 0
Scale == 10 * 10     \* hundredths in one unit

APP_PASSWORD == "key-ok"
Keys == {"key-ok", "key-bad"}
Pages == {"Home", "Visa"}
Salaries == {1, 2}
TextLens == {0, 49, 50, 51}

----------------------------------------------------------------------------
(* Values: Python objects that reach clean_money and the data frame *)

Num(n) == [k |-> "num", v |-> n, s |-> <<>>]
Str(t) == [k |-> "str", v |-> 0, s |-> t]
NaN == [k |-> "nan", v |-> 0, s |-> <<>>]
None == [k |-> "none", v |-> 0, s |-> <<>>]

Naira == "NAIRA"
Pipe == "|"
Comma == ","
Space == " "
Dot == "."

Digit == [c \in {"0", "1", "2", "3", "4", "5", "6", "7", "8", "9"} |->
            CASE c = "0" -> 0 [] c = "1" -> 1 [] c = "2" -> 2 [] c = "3" -> 3
              [] c = "4" -> 4 [] c = "5" -> 5 [] c = "6" -> 6 [] c = "7" -> 7
              [] c = "8" -> 8 [] c = "9" -> 9]

DigitChar == <<"0", "1", "2", "3", "4", "5", "6", "7", "8", "9">>

IsDigit(c) == c \in DOMAIN Digit

\* str.lower on one character
Lower(c) ==
    CASE c = "A" -> "a" [] c = "B" -> "b" [] c = "C" -> "c" [] c = "D" -> "d"
      [] c = "E" -> "e" [] c = "F" -> "f" [] c = "G" -> "g" [] c = "H" -> "h"
      [] c = "I" -> "i" [] c = "J" -> "j" [] c = "K" -> "k" [] c = "L" -> "l"
      [] c = "M" -> "m" [] c = "N" -> "n" [] c = "O" -> "o" [] c = "P" -> "p"
      [] c = "Q" -> "q" [] c = "R" -> "r" [] c = "S" -> "s" [] c = "T" -> "t"
      [] c = "U" -> "u" [] c = "V" -> "v" [] c = "W" -> "w" [] c = "X" -> "x"
      [] c = "Y" -> "y" [] c = "Z" -> "z" [] OTHER -> c

LowerAll(t) == [i \in 1..Len(t) |-> Lower(t[i])]

StartsWith(t, pat) == Len(t) >= Len(pat) /\ SubSeq(t, 1, Len(pat)) = pat

\* str.replace(pat, ""): every occurrence, left to right, without overlap
RECURSIVE Replace(_, _)
Replace(t, pat) ==
    IF t = <<>> THEN <<>>
    ELSE IF StartsWith(t, pat) THEN Replace(SubSeq(t, Len(pat) + 1, Len(t)), pat)
    ELSE <<Head(t)>> \o Replace(Tail(t), pat)

\* str.strip()
RECURSIVE LStrip(_)
LStrip(t) == IF t # <<>> /\ Head(t) = Space THEN LStrip(Tail(t)) ELSE t

RECURSIVE RStrip(_)
RStrip(t) ==
    IF t # <<>> /\ t[Len(t)] = Space THEN RStrip(SubSeq(t, 1, Len(t) - 1)) ELSE t

Strip(t) == RStrip(LStrip(t))

\* value of a run of digits
RECURSIVE DigitsValue(_)
DigitsValue(t) ==
    IF t = <<>> THEN 0
    ELSE 10 * DigitsValue(SubSeq(t, 1, Len(t) - 1)) + Digit[t[Len(t)]]

AllDigits(t) == \A i \in 1..Len(t) : IsDigit(t[i])

DotAt(t) == IF \E i \in 1..Len(t) : t[i] = Dot
            THEN CHOOSE i \in 1..Len(t) : t[i] = Dot /\ \A j \in 1..(i - 1) : t[j] # Dot
            ELSE 0

\* the hundredths of a fraction part of one or two digits
FracValue(t) ==
    IF t = <<>> THEN 0
    ELSE IF Len(t) = 1 THEN 10 * Digit[t[1]]
    ELSE DigitsValue(SubSeq(t, 1, 2))

\* an unsigned decimal: digits, optionally one dot, at least one digit
IsDecimal(t) ==
    LET d == DotAt(t) IN
    IF d = 0 THEN t # <<>> /\ AllDigits(t)
    ELSE /\ AllDigits(SubSeq(t, 1, d - 1))
         /\ AllDigits(SubSeq(t, d + 1, Len(t)))
         /\ Len(t) > 1

DecimalValue(t) ==
    LET d == DotAt(t) IN
    IF d = 0 THEN Scale * DigitsValue(t)
    ELSE Scale * DigitsValue(SubSeq(t, 1, d - 1)) + FracValue(SubSeq(t, d + 1, Len(t)))

\* float(s): surrounding blanks and a sign are accepted, "nan" in any case
\* is a float, anything else raises ValueError (ok = FALSE)
ParseFloat(t) ==
    LET u == Strip(t)
        signed == u # <<>> /\ Head(u) \in {"+", "-"}
        body == IF signed THEN Tail(u) ELSE u
        sign == IF signed /\ Head(u) = "-" THEN -1 ELSE 1
    IN  IF LowerAll(body) = <<"n", "a", "n">> THEN [ok |-> TRUE, val |-> NaN]
        ELSE IF IsDecimal(body) THEN [ok |-> TRUE, val |-> Num(sign * DecimalValue(body))]
        ELSE [ok |-> FALSE, val |-> Num(0)]

\* decimal digits of a natural number
RECURSIVE NatStr(_)
NatStr(n) == IF n < 10 THEN <<DigitChar[n + 1]>>
             ELSE NatStr(n \div 10) \o <<DigitChar[(n % 10) + 1]>>

\* str(val)
PyStr(val) ==
    CASE val.k = "str" -> val.s
      [] val.k = "nan" -> <<"n", "a", "n">>
      [] val.k = "none" -> <<"N", "o", "n", "e">>
      [] val.k = "num" ->
            LET a == IF val.v < 0 THEN -val.v ELSE val.v
                f == a % Scale
            IN  (IF val.v < 0 THEN <<"-">> ELSE <<>>) \o NatStr(a \div Scale)
                \o <<Dot>> \o <<DigitChar[(f \div 10) + 1], DigitChar[(f % 10) + 1]>>

\* `not val`: None, "", 0 and 0.0 are falsy; NaN is a non-zero float
Falsy(val) ==
    \/ val.k = "none"
    \/ val.k = "str" /\ val.s = <<>>
    \/ val.k = "num" /\ val.v = 0

\* the markers clean_money strips
MARK_Dr == <<"D", "r">>
MARK_Cr == <<"C", "r">>

\* the replace chain and strip of clean_money
Residual(val) ==
    Strip(Replace(Replace(Replace(Replace(PyStr(val), <<Comma>>), <<Naira>>), MARK_Dr), MARK_Cr))

clean_money(val) ==
    IF Falsy(val) THEN Num(0)
    ELSE LET p == ParseFloat(Residual(val)) IN
         IF p.ok THEN p.val ELSE Num(0)

----------------------------------------------------------------------------
(* raw_ai_text.split('\n'), the pipe filter and pd.read_csv *)

Newline == "\n"

HasChar(t, c) == \E i \in 1..Len(t) : t[i] = c

FirstAt(t, c) == CHOOSE i \in 1..Len(t) : t[i] = c /\ \A j \in 1..(i - 1) : t[j] # c

\* str.split(sep): always at least one piece
RECURSIVE SplitOn(_, _)
SplitOn(t, sep) ==
    IF ~HasChar(t, sep) THEN <<t>>
    ELSE LET i == FirstAt(t, sep) IN
         <<SubSeq(t, 1, i - 1)>> \o SplitOn(SubSeq(t, i + 1, Len(t)), sep)

\* "\n".join(lines)
RECURSIVE JoinLines(_)
JoinLines(ls) ==
    IF ls = <<>> THEN <<>>
    ELSE IF Len(ls) = 1 THEN ls[1]
    ELSE ls[1] \o <<Newline>> \o JoinLines(Tail(ls))

\* a filter that keeps every non-empty line
HasPipeNonEmpty(line) == line # <<>>

\* "|" in line
HasPipe(line) == HasChar(line, Pipe)

\* [line for line in raw_ai_text.split('\n') if "|" in line]
ValidLines(text) == SelectSeq(SplitOn(text, Newline), HasPipe)

\* some of the strings read_csv reads as a missing value
STR_NA_VALUES == {<<>>, <<"n", "a", "n">>, <<"N", "a", "N">>, <<"N", "A">>,
                  <<"N", "/", "A">>, <<"n", "u", "l", "l">>}

RawCell(field) == IF field \in STR_NA_VALUES THEN NaN ELSE Str(field)

Fields(line) == SplitOn(line, Pipe)

\* header=None: the first line sets the width; on_bad_lines='skip' drops a
\* line with more fields; a line with fewer is filled with NaN
TableWidth(lines) == Len(Fields(lines[1]))

GoodLine(lines, line) == Len(Fields(line)) <= TableWidth(lines)

KeptLines(lines) == SelectSeq(lines, LAMBDA l : GoodLine(lines, l))

RawRow(line, width) ==
    LET f == Fields(line) IN
    [j \in 1..width |-> IF j <= Len(f) THEN RawCell(f[j]) ELSE NaN]

\* a column whose cells are all numbers or missing is read as a numeric column
NumericColumn(rows, j) ==
    \A i \in 1..Len(rows) : rows[i][j].k = "nan" \/ ParseFloat(rows[i][j].s).ok

ConvertCell(rows, i, j) ==
    IF NumericColumn(rows, j) /\ rows[i][j].k = "str"
    THEN ParseFloat(rows[i][j].s).val
    ELSE rows[i][j]

read_csv(lines) ==
    LET width == TableWidth(lines)
        kept == KeptLines(lines)
        rows == [i \in 1..Len(kept) |-> RawRow(kept[i], width)]
    IN  [i \in 1..Len(rows) |-> [j \in 1..width |-> ConvertCell(rows, i, j)]]

----------------------------------------------------------------------------
(* 4. FORCE COLUMNS and 5. CLEAN DATA *)

SchemaNames == <<"Date", "Description", "Credit", "Debit", "Balance">>
MoneyNames == {"Credit", "Debit", "Balance"}

\* the labels 0, 1, 2, ... of a frame read with header=None, as strings
DefaultColumns(n) == [j \in 1..n |-> DigitChar[j]]

ColCount(rows) == Len(rows[1])

ForcedColumns(rows) ==
    IF ColCount(rows) >= SchemaWidth - 1 THEN SchemaNames
    ELSE DefaultColumns(ColCount(rows))

ForcedRows(rows) ==
    IF ColCount(rows) >= SchemaWidth
    THEN [i \in 1..Len(rows) |-> SubSeq(rows[i], 1, SchemaWidth)]
    ELSE IF ColCount(rows) = SchemaWidth - 1
    THEN [i \in 1..Len(rows) |-> Append(rows[i], Num(DefaultBalance))]
    ELSE rows

HasColumn(cols, name) == \E j \in 1..Len(cols) : cols[j] = name

ColIndex(cols, name) == CHOOSE j \in 1..Len(cols) : cols[j] = name

Cell(cols, row, name) == row[ColIndex(cols, name)]

\* df[col] = df[col].apply(clean_money) for the money columns that exist
CleanRows(cols, rows) ==
    [i \in 1..Len(rows) |->
        [j \in 1..Len(rows[i]) |->
            IF cols[j] \in MoneyNames THEN clean_money(rows[i][j]) ELSE rows[i][j]]]

----------------------------------------------------------------------------
(* 6. RISK CHECK and DISPLAY *)

PAT_SALARY == <<"S", "A", "L", "A", "R", "Y">>

\* re.search(pat, t, re.IGNORECASE) for a pattern of plain letters
RECURSIVE SearchNoCase(_, _)
SearchNoCase(t, pat) ==
    IF Len(t) < Len(pat) THEN FALSE
    ELSE IF StartsWith(LowerAll(t), LowerAll(pat)) THEN TRUE
    ELSE SearchNoCase(Tail(t), pat)

\* Series.str.contains('SALARY', case=False, na=False) on one cell
ContainsSalary(cell) == cell.k = "str" /\ SearchNoCase(cell.s, PAT_SALARY)

\* the .str accessor exists on a column of strings only
HasStrAccessor(cols, rows) ==
    \E i \in 1..Len(rows) : Cell(cols, rows[i], "Description").k = "str"

\* df['Credit'] > limit; a comparison with NaN is False
OverLimit(cell, sal) == cell.k = "num" /\ cell.v > sal * LimitFactor * Scale

Suspicious(cols, row, sal) ==
    /\ OverLimit(Cell(cols, row, "Credit"), sal)
    /\ ~ContainsSalary(Cell(cols, row, "Description"))

Flag(cols, row) ==
    [kind |-> "LumpSum", credit |-> Cell(cols, row, "Credit"), date |-> Cell(cols, row, "Date")]

RiskFlags(cols, rows, sal) ==
    LET hit == SelectSeq(rows, LAMBDA r : Suspicious(cols, r, sal)) IN
    [i \in 1..Len(hit) |-> Flag(cols, hit[i])]

\* Series.sum(): missing values are skipped
RECURSIVE SeriesSum(_, _)
SeriesSum(cols, rows) ==
    IF rows = <<>> THEN 0
    ELSE LET c == Cell(cols, Head(rows), "Credit") IN
         (IF c.k = "num" THEN c.v ELSE 0) + SeriesSum(cols, Tail(rows))

NoMetrics == [shown |-> FALSE, total_inflow |-> Num(0), closing_balance |-> Num(0)]

Metrics(cols, rows) ==
    [shown |-> TRUE,
     total_inflow |-> Num(SeriesSum(cols, rows)),
     closing_balance |-> Cell(cols, rows[Len(rows)], "Balance")]

----------------------------------------------------------------------------
(* Inputs: the lines a completion may hold, and the completions *)

\* 01/01|SALARY|5|0|5
L_Salary ==
    <<"0", "1", "/", "0", "1", "|", "S", "A", "L", "A", "R", "Y", "|", "5", "|", "0", "|", "5">>
\* 02/01|GIFT|8|0|13
L_Gift ==
    <<"0", "2", "/", "0", "1", "|", "G", "I", "F", "T", "|", "8", "|", "0", "|", "1", "3">>
\* 03/01|my salary|7|0|20
L_LowerSalary ==
    <<"0", "3", "/", "0", "1", "|", "m", "y", " ", "s", "a", "l", "a", "r", "y", "|", "7", "|", "0", "|", "2", "0">>
\* 04/01|Gift|6|0|26
L_Edge ==
    <<"0", "4", "/", "0", "1", "|", "G", "i", "f", "t", "|", "6", "|", "0", "|", "2", "6">>
\* 05/01|REFUND|9
L_Three ==
    <<"0", "5", "/", "0", "1", "|", "R", "E", "F", "U", "N", "D", "|", "9">>
\* 06/01|FEE|0|2
L_Four ==
    <<"0", "6", "/", "0", "1", "|", "F", "E", "E", "|", "0", "|", "2">>
\* 07/01|A|B|9|0|9
L_Six ==
    <<"0", "7", "/", "0", "1", "|", "A", "|", "B", "|", "9", "|", "0", "|", "9">>
\* Date|Description|Credit_Amount|Debit_Amount|Balance
L_Header ==
    <<"D", "a", "t", "e", "|", "D", "e", "s", "c", "r", "i", "p", "t", "i", "o", "n", "|", "C", "r", "e", "d", "i", "t", "_", "A", "m", "o", "u", "n", "t", "|", "D", "e", "b", "i", "t", "_", "A", "m", "o", "u", "n", "t", "|", "B", "a", "l", "a", "n", "c", "e">>
\* Here you go:
L_Prose ==
    <<"H", "e", "r", "e", " ", "y", "o", "u", " ", "g", "o", ":">>
\* 08/01|1234|9|0|9
L_NumDesc ==
    <<"0", "8", "/", "0", "1", "|", "1", "2", "3", "4", "|", "9", "|", "0", "|", "9">>
\* 09/01|POS||1|8
L_EmptyCredit ==
    <<"0", "9", "/", "0", "1", "|", "P", "O", "S", "|", "|", "1", "|", "8">>
\* 10/01|TRF|(naira)1,000.50Cr|0|x
L_Decorated ==
    <<"1", "0", "/", "0", "1", "|", "T", "R", "F", "|", Naira, "1", ",", "0", "0", "0", ".", "5", "0", "C", "r", "|", "0", "|", "x">>
\* 11/01|X
L_Two ==
    <<"1", "1", "/", "0", "1", "|", "X">>
\* 12/01||9|0|9
L_NoDesc ==
    <<"1", "2", "/", "0", "1", "|", "|", "9", "|", "0", "|", "9">>

Lines == {L_Salary, L_Gift, L_LowerSalary, L_Edge, L_Three, L_Four, L_Six,
          L_Header, L_Prose, L_NumDesc, L_EmptyCredit, L_Decorated, L_Two,
          L_NoDesc}

LineSeqs == UNION {[1..n -> Lines] : n \in 0..MaxLines}

Completions == {JoinLines(ls) : ls \in LineSeqs}

----------------------------------------------------------------------------
(* The script *)

Unset == [k |-> "unset", v |-> 0, s |-> <<>>]
NoCase == [val |-> None, expect |-> Num(0), grouped |-> FALSE, glyph |-> FALSE,
           marker |-> <<>>, pos |-> "none"]

FreshData ==
    /\ text_len = -1
    /\ groq_call = "not called"
    /\ raw_ai_text = <<>>
    /\ valid_lines = <<>>
    /\ columns = <<>>
    /\ raw_df = <<>>
    /\ df = <<>>

FreshOut ==
    /\ status = "none"
    /\ errors = <<>>
    /\ flags = <<>>
    /\ metrics = NoMetrics
    /\ report = "none"
    /\ table = FALSE

Init ==
    /\ password_correct = "absent"
    /\ password = "absent"
    /\ keyEntered = "none"
    /\ has_api_key \in BOOLEAN
    /\ pc = "gate"
    /\ screen = "blank"
    /\ page = "Home"
    /\ button = "none"
    /\ uploaded_file = FALSE
    /\ salary = 2
    /\ FreshData
    /\ FreshOut
    /\ mCase = NoCase
    /\ mOut = Unset

\* a rerun starts with nothing read and nothing on the page
StartRun ==
    /\ pc' = "gate"
    /\ text_len' = -1
    /\ groq_call' = "not called"
    /\ raw_ai_text' = <<>>
    /\ valid_lines' = <<>>
    /\ columns' = <<>>
    /\ raw_df' = <<>>
    /\ df' = <<>>
    /\ status' = "none"
    /\ errors' = <<>>
    /\ flags' = <<>>
    /\ metrics' = NoMetrics
    /\ report' = "none"
    /\ table' = FALSE

\* the run ends: st.stop(), an exception caught at the bottom, or the last line
EndRun(scr) ==
    /\ pc' = "idle"
    /\ screen' = scr

\* password_entered, the on_change callback of the key input, then the rerun
PasswordEntered(key) ==
    /\ pc = "idle"
    /\ screen \in {"prompt", "denied"}
    /\ key # password
    /\ keyEntered' = key
    /\ IF key = APP_PASSWORD
       THEN password_correct' = "True" /\ password' = "absent"
       ELSE password_correct' = "False" /\ password' = key
    /\ StartRun
    /\ UNCHANGED <<has_api_key, screen, widgetVars, moneyVars>>

\* the user changes a widget of the rendered app, which reruns the script
Interact(p, b, u, sal) ==
    /\ pc = "idle"
    /\ screen = "app"
    /\ b = "run" => (p = "Visa" /\ page = "Visa")
    /\ page' = p
    /\ button' = b
    /\ uploaded_file' = u
    /\ salary' = sal
    /\ StartRun
    /\ UNCHANGED <<sessionVars, has_api_key, screen, moneyVars>>

\* a gate that only looks whether a key was ever entered
check_password_wrong(pcorrect) == pcorrect # "absent"

\* the value check_password returns
check_password(pcorrect) == pcorrect = "True"

\* if not check_password(): st.stop()
Gate ==
    /\ pc = "gate"
    /\ IF check_password(password_correct)
       THEN /\ pc' = "secrets"
            /\ UNCHANGED <<screen, errors>>
       ELSE IF password_correct = "absent"
       THEN /\ EndRun("prompt")
            /\ UNCHANGED errors
       ELSE /\ EndRun("denied")
            /\ errors' = Append(errors, "AccessDenied")
    /\ UNCHANGED <<sessionVars, has_api_key, widgetVars, dataVars, status, flags,
                   metrics, report, table, moneyVars>>

\* 3. SECURE API CONNECTION (the st.warning of the bare except is not kept)
ApiConnection ==
    /\ pc = "secrets"
    /\ IF has_api_key
       THEN /\ pc' = "sidebar"
            /\ UNCHANGED <<screen, errors>>
       ELSE /\ errors' = Append(errors, "ConfigError")
            /\ EndRun("stopped")
    /\ UNCHANGED <<sessionVars, has_api_key, widgetVars, dataVars, status, flags,
                   metrics, report, table, moneyVars>>

\* 4. SIDEBAR NAVIGATION: Log Out deletes the session key and reruns
Sidebar ==
    /\ pc = "sidebar"
    /\ IF button = "logout"
       THEN /\ password_correct' = "absent"
            /\ button' = "none"
            /\ pc' = "gate"
       ELSE /\ pc' = "page"
            /\ UNCHANGED <<password_correct, button>>
    /\ UNCHANGED <<password, keyEntered, has_api_key, screen, page, uploaded_file,
                   salary, dataVars, outVars, moneyVars>>

\* the page chosen in the sidebar; Run Audit needs the click and a file
PageDispatch ==
    /\ pc = "page"
    /\ IF page = "Visa" /\ button = "run" /\ uploaded_file
       THEN /\ status' = "reading"
            /\ pc' = "read"
            /\ UNCHANGED screen
       ELSE /\ EndRun("app")
            /\ UNCHANGED status
    /\ UNCHANGED <<sessionVars, has_api_key, widgetVars, dataVars, errors, flags,
                   metrics, report, table, moneyVars>>

\* a length check with the wrong threshold
TooShortLoose(n) == n < 5

\* len(text_data) < 50
TooShort(n) == n < MinTextLen

\* 1. GET TEXT: pdfplumber may raise; a short text stops the run
ReadPdf ==
    /\ pc = "read"
    /\ \E ok \in BOOLEAN, n \in TextLens :
          IF ~ok
          THEN /\ errors' = Append(errors, "SystemError")
               /\ EndRun("app")
               /\ UNCHANGED text_len
          ELSE /\ text_len' = n
               /\ IF TooShort(n)
                  THEN /\ errors' = Append(errors, "ScannedImage")
                       /\ EndRun("app")
                  ELSE /\ pc' = "ask"
                       /\ UNCHANGED <<errors, screen>>
    /\ UNCHANGED <<sessionVars, has_api_key, widgetVars, groq_call, raw_ai_text,
                   valid_lines, columns, raw_df, df, status, flags, metrics,
                   report, table, moneyVars>>

\* 2. ASK AI: the call raises or returns a completion
AskAI ==
    /\ pc = "ask"
    /\ status' = "analyzing"
    /\ \/ /\ groq_call' = "raised"
          /\ errors' = Append(errors, "SystemError")
          /\ EndRun("app")
          /\ UNCHANGED raw_ai_text
       \/ /\ groq_call' = "returned"
          /\ \E text \in Completions : raw_ai_text' = text
          /\ pc' = "parse"
          /\ UNCHANGED <<errors, screen>>
    /\ UNCHANGED <<sessionVars, has_api_key, widgetVars, text_len, valid_lines,
                   columns, raw_df, df, flags, metrics, report, table, moneyVars>>

\* 3. CLEAN & PARSE
Parse ==
    /\ pc = "parse"
    /\ valid_lines' = ValidLines(raw_ai_text)
    /\ IF valid_lines' = <<>>
       THEN /\ errors' = Append(errors, "NoTransactionData")
            /\ EndRun("app")
            /\ UNCHANGED <<df, columns>>
       ELSE /\ df' = read_csv(valid_lines')
            /\ columns' = DefaultColumns(TableWidth(valid_lines'))
            /\ pc' = "columns"
            /\ UNCHANGED <<errors, screen>>
    /\ UNCHANGED <<sessionVars, has_api_key, widgetVars, text_len, groq_call,
                   raw_ai_text, raw_df, status, flags, metrics, report, table,
                   moneyVars>>

\* 4. FORCE COLUMNS, 5. CLEAN DATA and the success status
ForceAndClean ==
    /\ pc = "columns"
    /\ columns' = ForcedColumns(df)
    /\ raw_df' = ForcedRows(df)
    /\ df' = CleanRows(columns', raw_df')
    /\ status' = "extracted"
    /\ pc' = "risk"
    /\ UNCHANGED <<sessionVars, has_api_key, screen, widgetVars, text_len,
                   groq_call, raw_ai_text, valid_lines, errors, flags, metrics,
                   report, table, moneyVars>>

\* 6. RISK CHECK: .str on a column without strings raises AttributeError
RiskCheck ==
    /\ pc = "risk"
    /\ IF ~HasColumn(columns, "Credit")
       THEN /\ pc' = "display"
            /\ UNCHANGED <<flags, errors, screen>>
       ELSE IF HasStrAccessor(columns, df)
       THEN /\ flags' = RiskFlags(columns, df, salary)
            /\ pc' = "display"
            /\ UNCHANGED <<errors, screen>>
       ELSE /\ errors' = Append(errors, "SystemError")
            /\ EndRun("app")
            /\ UNCHANGED flags
    /\ UNCHANGED <<sessionVars, has_api_key, widgetVars, dataVars, status, metrics,
                   report, table, moneyVars>>

\* DISPLAY
Display ==
    /\ pc = "display"
    /\ metrics' = IF HasColumn(columns, "Credit") THEN Metrics(columns, df) ELSE NoMetrics
    /\ report' = IF flags # <<>> THEN "flags" ELSE "clean"
    /\ table' = TRUE
    /\ EndRun("app")
    /\ UNCHANGED <<sessionVars, has_api_key, widgetVars, dataVars, status, errors,
                   flags, moneyVars>>

Next ==
    \/ \E key \in Keys : PasswordEntered(key)
    \/ \E p \in Pages, b \in {"none", "run", "logout"}, u \in BOOLEAN, sal \in Salaries :
          Interact(p, b, u, sal)
    \/ Gate
    \/ ApiConnection
    \/ Sidebar
    \/ PageDispatch
    \/ ReadPdf
    \/ AskAI
    \/ Parse
    \/ ForceAndClean
    \/ RiskCheck
    \/ Display

Spec == Init /\ [][Next]_vars

----------------------------------------------------------------------------
(* clean_money on its own: amount tokens and null-like values *)

MARK_DR == <<"D", "R">>
MARK_CR == <<"C", "R">>
Markers == {<<>>, MARK_Dr, MARK_Cr, MARK_DR, MARK_CR}

\* the undecorated numbers: digits, digits with thousands separators, value
Bases == {
    [plain |-> <<"1", "0", "0", "0">>, grouped |-> <<"1", ",", "0", "0", "0">>, value |-> 100000],
    [plain |-> <<"1", "0", "0", "0", ".", "5", "0">>, grouped |-> <<"1", ",", "0", "0", "0", ".", "5", "0">>, value |-> 100050],
    [plain |-> <<"2", "5", "0", "0", "0", "0", "0", ".", "0", "0">>,
     grouped |-> <<"2", ",", "5", "0", "0", ",", "0", "0", "0", ".", "0", "0">>, value |-> 250000000]}

Decorate(digits, glyph, marker, pos) ==
    (IF pos = "prefix" THEN marker ELSE <<>>)
    \o (IF glyph THEN <<Naira>> ELSE <<>>)
    \o digits
    \o (IF pos = "suffix" THEN marker ELSE <<>>)

TokenCases ==
    {[val |-> Str(Decorate(IF g THEN b.grouped ELSE b.plain, y, m, p)),
      expect |-> Num(b.value), grouped |-> g, glyph |-> y, marker |-> m, pos |-> p] :
        b \in Bases, g \in BOOLEAN, y \in BOOLEAN, m \in Markers, p \in {"prefix", "suffix"}}

\* empty, None, the missing-value marker, and residuals that are no number
NullLike == {None, Str(<<>>), NaN, Str(<<"x">>), Str(<<"-">>), Str(<<"N", "/", "A">>),
             Str(<<"1", "2", "a">>)}

NullCases ==
    {[val |-> n, expect |-> Num(0), grouped |-> FALSE, glyph |-> FALSE,
      marker |-> <<>>, pos |-> "none"] : n \in NullLike}

MoneyCases == TokenCases \cup NullCases

MoneyInit ==
    /\ password_correct = "absent"
    /\ password = "absent"
    /\ keyEntered = "none"
    /\ has_api_key = TRUE
    /\ pc = "gate"
    /\ screen = "blank"
    /\ page = "Home"
    /\ button = "none"
    /\ uploaded_file = FALSE
    /\ salary = 2
    /\ FreshData
    /\ FreshOut
    /\ mCase \in MoneyCases
    /\ mOut = Unset

ApplyCleanMoney ==
    /\ mOut = Unset
    /\ mOut' = clean_money(mCase.val)
    /\ UNCHANGED <<sessionVars, has_api_key, pc, screen, widgetVars, dataVars,
                   outVars, mCase>>

MoneyNext == ApplyCleanMoney

SpecMoney == MoneyInit /\ [][MoneyNext]_vars

----------------------------------------------------------------------------
(* Properties *)

\* the steps after 5. CLEAN DATA have been reached in this run
Extracted == status = "extracted"

\* the frame carries the five named columns
Normalized == columns = SchemaNames

\* the risk check of this run is over (it returned or it raised)
RiskChecked == Extracted /\ pc \in {"display", "idle"}

\* the DISPLAY step of this run is over
Displayed == pc = "idle" /\ table

NoPipeIn(text) == \A i \in 1..Len(text) : text[i] # Pipe

LowerSalary == <<"s", "a", "l", "a", "r", "y">>

\* the description is a text with the letters of "salary", in any case, in a row
MentionsSalary(cell) ==
    /\ cell.k = "str"
    /\ \E i \in 1..Len(cell.s) :
          /\ i + Len(LowerSalary) - 1 <= Len(cell.s)
          /\ \A j \in 1..Len(LowerSalary) : Lower(cell.s[i + j - 1]) = LowerSalary[j]

ExpectFlag(row) ==
    /\ row[3].k = "num"
    /\ row[3].v > LimitFactor * salary * Scale
    /\ ~MentionsSalary(row[2])

ExpectedFlags ==
    LET hit == SelectSeq(df, ExpectFlag) IN
    [i \in 1..Len(hit) |-> [kind |-> "LumpSum", credit |-> hit[i][3], date |-> hit[i][1]]]

\* C1: once the risk check has run over a normalized frame, the flags are,
\* in record order, one LumpSum flag for each record whose credit is above
\* three times the salary and whose description does not hold "salary" in
\* any letter case, and no other flag.
C1_LumpSumFlags == (RiskChecked /\ Normalized) => flags = ExpectedFlags

FullyDecorated == mCase.grouped /\ mCase.glyph /\ mCase.marker # <<>>

\* C2: for a number written with thousands separators, the currency glyph
\* and a Dr, Cr, DR or CR marker before or after it, clean_money returns the
\* value of the bare number.
C2_DecoratedAmount == (mOut # Unset /\ FullyDecorated) => mOut = mCase.expect

MoneyColumns == {3, 4, 5}

\* C3: after normalization every credit, debit and balance cell is a number,
\* and a cell that was empty or missing in the parsed frame is exactly 0.0.
C3_MoneyCellsDefined ==
    (Extracted /\ Normalized) =>
        \A i \in 1..Len(df) : \A j \in MoneyColumns :
            /\ df[i][j].k = "num"
            /\ raw_df[i][j].k = "nan" => df[i][j] = Num(0)

NothingProduced ==
    /\ status # "extracted"
    /\ flags = <<>>
    /\ ~metrics.shown
    /\ report = "none"
    /\ ~table

\* the completion came back and its parse step is over
Parsed == groq_call = "returned" /\ pc # "parse"

\* C4: when the completion holds no line with a pipe, the run reports that
\* no transaction data was found and stops: no success status, no flag, no
\* summary, no report and no table.
C4_EmptyExtraction ==
    (Parsed /\ NoPipeIn(raw_ai_text)) =>
        /\ pc = "idle"
        /\ errors = <<"NoTransactionData">>
        /\ NothingProduced

C4_Witness ==
    /\ Parsed
    /\ raw_ai_text # <<>>
    /\ NoPipeIn(raw_ai_text)
    /\ errors = <<"NoTransactionData">>

\* the sum of the credit cells as floats: not a number once one of them is
RECURSIVE CreditTotal(_)
CreditTotal(rows) ==
    IF rows = <<>> THEN Num(0)
    ELSE LET rest == CreditTotal(Tail(rows)) IN
         IF Head(rows)[3].k # "num" \/ rest.k # "num" THEN NaN
         ELSE Num(Head(rows)[3].v + rest.v)

\* C5: a frame that reaches the summary gets total_inflow = the sum of all
\* credit cells and closing_balance = the balance cell of the last record
\* (0 and 0 for an empty frame).
C5_Summary ==
    (Displayed /\ Normalized) =>
        /\ metrics.shown
        /\ metrics.total_inflow = CreditTotal(df)
        /\ metrics.closing_balance = IF df = <<>> THEN Num(0) ELSE df[Len(df)][5]

ShortLine(line) == Len(Fields(line)) < SchemaWidth

\* C6: when a data row has fewer than five fields the frame still gets the
\* five named columns, every record has five cells, and a money cell the row
\* did not supply is 0.0, so that the risk check and the summary see it.
C6_ShortRowPadded ==
    (Extracted /\ \E i \in 1..Len(valid_lines) : ShortLine(valid_lines[i])) =>
        /\ Normalized
        /\ Len(df) >= Cardinality({i \in 1..Len(valid_lines) : ShortLine(valid_lines[i])})
        /\ \A i \in 1..Len(df) :
              /\ Len(df[i]) = SchemaWidth
              /\ \A j \in MoneyColumns : raw_df[i][j].k = "nan" => df[i][j] = Num(0)

HeaderNames == <<<<"D", "a", "t", "e">>,
                 <<"D", "e", "s", "c", "r", "i", "p", "t", "i", "o", "n">>,
                 <<"C", "r", "e", "d", "i", "t">>,
                 <<"D", "e", "b", "i", "t">>,
                 <<"B", "a", "l", "a", "n", "c", "e">>>>

Occurs(pat, t) == \E i \in 1..Len(t) : StartsWith(SubSeq(t, i, Len(t)), pat)

\* the line names every column of the schema
IsHeaderLine(line) == \A n \in 1..Len(HeaderNames) : Occurs(HeaderNames[n], line)

DataLine(line) == ~NoPipeIn(line) /\ ~IsHeaderLine(line)

DataLines == SelectSeq(SplitOn(raw_ai_text, Newline), DataLine)

HasFullLine ==
    \E i \in 1..Len(valid_lines) : Len(Fields(valid_lines[i])) = SchemaWidth

\* C7: when some line has the pipe and five fields, the records are exactly
\* the lines with a pipe that do not restate the header, one record a line,
\* in line order.
C7_RecordsAreDataLines ==
    (Extracted /\ HasFullLine) =>
        /\ Len(df) = Len(DataLines)
        /\ \A i \in 1..Len(df) : df[i][1] = RawCell(Fields(DataLines[i])[1])

LongLine(line) == Len(Fields(line)) > SchemaWidth

\* C8: a row of more than five fields is kept as the record of its first
\* five fields, whatever the first row of the completion looks like.
C8_LongRowTruncated ==
    Extracted =>
        \A i \in 1..Len(valid_lines) :
            LongLine(valid_lines[i]) =>
                \E r \in 1..Len(raw_df) :
                    /\ Len(raw_df[r]) = SchemaWidth
                    /\ raw_df[r][1] = RawCell(Fields(valid_lines[i])[1])
                    /\ raw_df[r][2] = RawCell(Fields(valid_lines[i])[2])

TextTooShort == text_len >= 0 /\ text_len < MinTextLen

DocumentFailure ==
    \/ TextTooShort
    \/ groq_call = "raised"
    \/ Parsed /\ NoPipeIn(raw_ai_text)

\* C9: in a run with a short text, a failed completion call or a completion
\* without a pipe, the run has ended with an error on the page and without
\* success status, flags, summary or report; a short text never reaches the
\* completion service.
C9_DocumentFailureReported ==
    /\ DocumentFailure =>
          /\ pc = "idle"
          /\ errors # <<>>
          /\ NothingProduced
    /\ TextTooShort => groq_call = "not called" /\ errors = <<"ScannedImage">>

C9_Witness ==
    /\ TextTooShort
    /\ text_len > 0
    /\ pc = "idle"
    /\ errors = <<"ScannedImage">>

PastGate == {"secrets", "sidebar", "page", "read", "ask", "parse", "columns",
             "risk", "display"}

PipelineRan == text_len # -1 \/ groq_call # "not called" \/ status # "none"

\* C10: no step behind the gate runs, and nothing of the pipeline has run,
\* unless password_correct is True; between runs a session without it shows
\* the access prompt; password_correct turns True only on entering
\* APP_PASSWORD; and Log Out removes it.
C10_AccessGate ==
    /\ []((pc \in PastGate \/ PipelineRan) => password_correct = "True")
    /\ []((pc = "idle" /\ password_correct # "True") => screen \in {"prompt", "denied"})
    /\ [][(password_correct # "True" /\ password_correct' = "True")
              => keyEntered' = APP_PASSWORD]_vars
    /\ [][(pc = "sidebar" /\ button = "logout")
              => (password_correct' = "absent" /\ pc' = "gate")]_vars

\* logged in once, logged out, and back at the access prompt
C10_Witness ==
    /\ keyEntered = APP_PASSWORD
    /\ password_correct = "absent"
    /\ pc = "idle"
    /\ screen = "prompt"

====
